---- MODULE Spec2Model ----
(***************************************************************************)
(* CosmoCLI: the duplex voice session of bedrock/stream.py                 *)
(* (BedrockStreamManager), the audio duplexer of audio.py (AudioInterface) *)
(* and the inbound visitor of bedrock/model.py, as one state machine.      *)
(*                                                                         *)
(* Every "await" of the transport, of a queue, of the tool backend or of a *)
(* timer is a suspension point of the asyncio loop: one action runs a task *)
(* from one suspension point to the next.  The transport's send may raise  *)
(* at any call; with _br_stream reset to None the assert in _send_event    *)
(* raises at every call.                                                   *)
(***************************************************************************)
EXTENDS Naturals, Sequences, FiniteSets

VARIABLES
    limit,               \* what the environment will do at most (fixed by Init)
    faults,              \* sends the transport will still refuse
    sent,                \* events the transport accepted, in send order
    br_stream,           \* self._br_stream: "none" (None) | "open"
    mainPc,              \* position of the caller of initialize()/close()
    closeResult,         \* how close() ended: "none" | "returned" | "cancelled" | "send_error"
    stopResult,          \* how stop() ended: "none" | "ok" | "cancelled" | "play_error" | "device_error"
    br_incoming_task,    \* "none" | "recv" (awaiting the next inbound message) | "done"
    brExit,              \* why _process_br_incoming ended: "none" | "cancelled" | "exception"
    user_incoming_task,  \* "none" | "created" | "get" | "send" | "done"
    userData,            \* the frame _process_user_incoming holds between get() and send
    audio_in_q,          \* self._audio_in_q
    frameCount,          \* frames the capture callback has delivered so far
    handoffs,            \* _handle_input coroutines scheduled on the loop, not yet run
    inCount,             \* inbound messages received so far
    closedReads,         \* receive() calls answered None since the remote end closed
    lastIn,              \* the last inbound message
    toolUses,            \* the tool-use events the service has sent: tool name and invocation id
    tool_name,           \* self._tool_name
    tool_use_id,         \* self._tool_use_id
    tool_use_content,    \* self._tool_use_content
    tool_tasks,          \* keys of self._tool_tasks
    tasks,               \* the tool tasks created so far, in creation order
    audio,               \* self._audio: "none" (None) | "started"
    output_q,            \* AudioInterface._output_q
    is_playing_output,   \* AudioInterface._is_playing_output
    output_task,         \* _play_output_audio: "none" | "get" | "write" | "failed" | "done"
    timers,              \* deferred _clear_flag_after_playback tasks still sleeping
    input_stream,        \* capture device: "closed" | "active" | "released"
    output_stream        \* playback device: "closed" | "open" | "released"

vars == <<limit, faults, sent, br_stream, mainPc, closeResult, stopResult, br_incoming_task, brExit,
          user_incoming_task, userData, audio_in_q, frameCount, handoffs, inCount,
          closedReads, lastIn, toolUses,
          tool_name, tool_use_id, tool_use_content, tool_tasks, tasks,
          audio, output_q, is_playing_output, output_task, timers, input_stream,
          output_stream>>

sessionVars == <<br_incoming_task, brExit, inCount, lastIn, tool_name,
                 tool_use_id, tool_use_content>>
userVars == <<user_incoming_task, userData>>
toolVars == <<tool_tasks, tasks>>
playVars == <<output_q, is_playing_output, output_task, timers>>
deviceVars == <<input_stream, output_stream>>
mainVars == <<mainPc, closeResult, stopResult>>

(***************************************************************************)
(* Bounds of the model.                                                    *)
(***************************************************************************)
MaxInbound == 2     \* inbound messages the remote service delivers
MaxTools == 1       \* tool tasks dispatched
MaxFrames == 1      \* frames the capture callback delivers
MaxChunks == 1      \* audio chunks waiting in the playback queue
MaxFaults == 1      \* sends the transport refuses
AudioInbound == 2   \* inbound messages of the audio scenario
AudioFrames == 2    \* frames captured in the audio scenario
AudioChunks == 2    \* chunks queued in the audio scenario
DispatchInbound == 3   \* inbound messages of the dispatch scenario
DispatchTools == 2     \* tool tasks of the dispatch scenario
FaultInbound == 2      \* inbound messages of the dispatch scenario with refused sends
FaultTools == 2        \* tool tasks of the dispatch scenario with refused sends
CloseInbound == 1      \* inbound messages of the dispatch scenario with close()
MaxClosedReads == 2    \* turns of the dispatch loop followed on a closed inbound side
CloseTools == 1        \* tool tasks of the dispatch scenario with close()

Limit(inbound, tools, frames, chunks) ==
    [inbound |-> inbound, tools |-> tools, frames |-> frames, chunks |-> chunks]

(***************************************************************************)
(* Outbound events (bedrock/model.py), reduced to tag, content name and,   *)
(* for a tool result contentStart, the tool use id it references.          *)
(***************************************************************************)
NoId == 0
Ev(tag, name, id) == [tag |-> tag, name |-> name, id |-> id, content |-> ""]

SystemName == [kind |-> "system", n |-> 0]    \* self._content_name
AudioName == [kind |-> "audio", n |-> 0]      \* self._audio_content_name
ToolContentName(n) == [kind |-> "tool", n |-> n]   \* str(uuid.uuid4()) of the n-th dispatch
NoName == [kind |-> "none", n |-> 0]

SessionStartEv == Ev("sessionStart", NoName, NoId)
PromptStartEv == Ev("promptStart", NoName, NoId)
SystemContentStartEv == Ev("contentStart", SystemName, NoId)
TextInputEv == Ev("textInput", SystemName, NoId)
SystemContentEndEv == Ev("contentEnd", SystemName, NoId)
AudioContentStartEv == Ev("contentStart", AudioName, NoId)
AudioInputEv(f) == Ev("audioInput", AudioName, f)
AudioContentEndEv == Ev("contentEnd", AudioName, NoId)
PromptEndEv == Ev("promptEnd", NoName, NoId)
SessionEndEv == Ev("sessionEnd", NoName, NoId)

\* initialize(): the five events it sends itself, in order.
BootstrapEvents == <<SessionStartEv, PromptStartEv, SystemContentStartEv,
                     TextInputEv, SystemContentEndEv>>

\* close(): the three events of the closing sequence, in order.
ClosingEvents == <<AudioContentEndEv, PromptEndEv, SessionEndEv>>

(***************************************************************************)
(* _send_event: the transport accepts the event, or raises.  With          *)
(* _br_stream None the assert raises.                                      *)
(***************************************************************************)
SendOk(ev) ==
    /\ br_stream = "open"
    /\ sent' = Append(sent, ev)
    /\ faults' = faults

SendFails ==
    /\ sent' = sent
    /\ IF br_stream = "none"
         THEN faults' = faults
         ELSE faults > 0 /\ faults' = faults - 1

(***************************************************************************)
(* BedrockStreamManager.__init__: nothing is open, no task exists, the     *)
(* pending tool invocation is three empty strings.                         *)
(***************************************************************************)
NoTool == "none"      \* self._tool_name = ''
NoIn == [kind |-> "none", tags |-> {}, type |-> "NONE", tool |-> NoTool]

Fresh ==
    /\ sent = <<>>
    /\ br_stream = "none"
    /\ mainPc = "new"
    /\ closeResult = "none"
    /\ stopResult = "none"
    /\ br_incoming_task = "none"
    /\ brExit = "none"
    /\ user_incoming_task = "none"
    /\ userData = NoId
    /\ audio_in_q = <<>>
    /\ frameCount = 0
    /\ handoffs = <<>>
    /\ inCount = 0
    /\ closedReads = 0
    /\ lastIn = NoIn
    /\ toolUses = <<>>
    /\ tool_name = NoTool
    /\ tool_use_id = NoId
    /\ tool_use_content = NoId
    /\ tool_tasks = {}
    /\ tasks = <<>>
    /\ audio = "none"
    /\ output_q = 0
    /\ is_playing_output = FALSE
    /\ output_task = "none"
    /\ timers = 0
    /\ input_stream = "closed"
    /\ output_stream = "closed"

(***************************************************************************)
(* initialize()                                                            *)
(***************************************************************************)
\* invoke_model_with_bidirectional_stream: the channel opens, or the call raises.
InitializeOpen ==
    /\ mainPc = "new"
    /\ \/ br_stream' = "open" /\ mainPc' = "init"
       \/ br_stream' = "none" /\ mainPc' = "init_failed"
    /\ UNCHANGED <<limit, toolUses, closedReads, handoffs, faults, sent, closeResult, stopResult, sessionVars, userVars, audio_in_q,
                   frameCount, toolVars, audio, playVars, deviceVars>>

\* After the fifth send: the two tasks are created, AudioInterface(...).start()
\* opens both devices, starts capture and creates the playback task.
StartTasks ==
    /\ br_incoming_task' = "recv"
    /\ user_incoming_task' = "created"
    /\ audio' = "started"
    /\ input_stream' = "active"
    /\ output_stream' = "open"
    /\ output_task' = "get"

\* One send of the bootstrap sequence; a send that raises ends initialize().
InitializeSend ==
    /\ mainPc = "init"
    /\ \/ /\ SendOk(BootstrapEvents[Len(sent) + 1])
          /\ IF Len(sent') = Len(BootstrapEvents)
               THEN StartTasks /\ mainPc' = "ready"
               ELSE /\ mainPc' = mainPc
                    /\ UNCHANGED <<br_incoming_task, user_incoming_task, audio,
                                   input_stream, output_stream, output_task>>
       \/ /\ SendFails
          /\ mainPc' = "init_failed"
          /\ UNCHANGED <<br_incoming_task, user_incoming_task, audio,
                         input_stream, output_stream, output_task>>
    /\ UNCHANGED <<limit, toolUses, closedReads, handoffs, br_stream, closeResult, stopResult, brExit, inCount, lastIn,
                   tool_name, tool_use_id, tool_use_content, userData,
                   audio_in_q, frameCount, toolVars, output_q, is_playing_output,
                   timers>>

(***************************************************************************)
(* Inbound messages.  A decoded event carries a set of tags (one, for the  *)
(* events the service sends; none, for an event of an unknown tag, whose   *)
(* field pydantic ignores); contentEnd carries its type, toolUse the tool. *)
(***************************************************************************)
Tags == {"completionStart", "usageEvent", "contentStart", "textOutput", "toolUse",
         "audioOutput", "contentEnd", "completionEnd"}
ContentTypes == {"TEXT", "TOOL", "AUDIO"}

\* tools.py registers simple_request and complex_request; the service may name another.
RegisteredTools == {"simple_request", "complex_request"}
ToolNames == {"simple_request", "unregistered_tool"}

In(kind, tags, type, tool) == [kind |-> kind, tags |-> tags, type |-> type, tool |-> tool]

\* result None, bytes_ None, or JSON without an "event" key: the loop continues.
\* "other": an output that is no chunk (case _).  "badjson": json.loads raises.
\* "badfields": BidirectionalStreamEvent(**...) fails validation.
InboundMessages ==
    {In(k, {}, "NONE", NoTool) : k \in {"none", "other", "badjson", "badfields"}}
    \cup {In("event", {t}, "NONE", NoTool) : t \in Tags \ {"toolUse", "contentEnd"}}
    \cup {In("event", {}, "NONE", NoTool)}
    \cup {In("event", {"toolUse"}, "NONE", t) : t \in ToolNames}
    \cup {In("event", {"contentEnd"}, ty, NoTool) : ty \in ContentTypes}

\* BidirectionalStreamEvent.visit: the handlers it invokes, in order.  The
\* completion_start test is an "if" of its own; the chain starts at usage_event.
Visit(tags) ==
    (IF "completionStart" \in tags THEN <<"on_completion_start">> ELSE <<>>)
    \o (IF "usageEvent" \in tags THEN <<"on_usage">>
        ELSE IF "contentStart" \in tags THEN <<"on_content_start">>
        ELSE IF "textOutput" \in tags THEN <<"on_text_output">>
        ELSE IF "toolUse" \in tags THEN <<"on_tool_use">>
        ELSE IF "audioOutput" \in tags THEN <<"on_audio_output">>
        ELSE IF "contentEnd" \in tags THEN <<"on_content_end">>
        ELSE IF "completionEnd" \in tags THEN <<"on_completion_end">>
        ELSE <<"unknown">>)

Called(calls, h) == \E i \in 1..Len(calls) : calls[i] = h

\* on_tool_use: the pending invocation is overwritten.
OnToolUse(m, id) ==
    /\ tool_name' = m.tool
    /\ tool_use_id' = id
    /\ tool_use_content' = id

\* on_audio_output -> AudioInterface.speak: the chunk joins the playback queue.
Speak ==
    /\ output_q' = output_q + 1

\* A tool task as created by on_content_end, before its first step.
NewToolTask(n) ==
    [pc |-> "exec", tool |-> tool_name, id |-> tool_use_id,
     content |-> tool_use_content, name |-> ToolContentName(n),
     attempts |-> 0, swallowed |-> FALSE]

\* Variant of on_content_end that reuses the first content name for every task.
OnContentEndToolSharedName ==
    /\ tasks' = Append(tasks, [NewToolTask(Len(tasks) + 1) EXCEPT !.name = ToolContentName(1)])
    /\ tool_tasks' = tool_tasks \cup {ToolContentName(1)}

\* on_content_end, type TOOL: the task is created from the pending invocation
\* and tracked under its fresh content name.
OnContentEndTool ==
    /\ tasks' = Append(tasks, NewToolTask(Len(tasks) + 1))
    /\ tool_tasks' = tool_tasks \cup {ToolContentName(Len(tasks) + 1)}

\* Variant of the handlers in which every content-end starts a tool task.
HandleAnyContentEnd(m, id) ==
    LET calls == Visit(m.tags) IN
    /\ IF Called(calls, "on_tool_use")
         THEN OnToolUse(m, id)
         ELSE UNCHANGED <<tool_name, tool_use_id, tool_use_content>>
    /\ IF Called(calls, "on_audio_output")
         THEN output_q < limit.chunks /\ Speak
         ELSE UNCHANGED output_q
    /\ IF Called(calls, "on_content_end")
         THEN Len(tasks) < limit.tools /\ OnContentEndTool
         ELSE UNCHANGED <<tasks, tool_tasks>>

\* The handlers' effects for one decoded event.
Handle(m, id) ==
    LET calls == Visit(m.tags) IN
    /\ IF Called(calls, "on_tool_use")
         THEN OnToolUse(m, id)
         ELSE UNCHANGED <<tool_name, tool_use_id, tool_use_content>>
    /\ IF Called(calls, "on_audio_output")
         THEN output_q < limit.chunks /\ Speak
         ELSE UNCHANGED output_q
    /\ IF Called(calls, "on_content_end") /\ m.type = "TOOL"
         THEN Len(tasks) < limit.tools /\ OnContentEndTool
         ELSE UNCHANGED <<tasks, tool_tasks>>

\* Variant in which on_content_end awaits the tool instead of creating a task:
\* the loop is back at its receive only when every tool it started has finished.
ReceivingAfterTools ==
    /\ br_incoming_task = "recv"
    /\ \A n \in 1..Len(tasks) : tasks[n].pc = "done"

\* The loop is at "await self._br_stream.await_output()": on_content_end has
\* returned as soon as the tool task was created.
Receiving == br_incoming_task = "recv"

\* _process_br_incoming: one turn of the loop.  The try encloses the while:
\* an exception of json.loads or of the validation leaves the loop.
ProcessBrIncoming(m) ==
    /\ Receiving
    /\ closedReads = 0
    /\ inCount < limit.inbound
    /\ inCount' = inCount + 1
    /\ lastIn' = m
    /\ CASE m.kind \in {"none", "other"} ->
              /\ UNCHANGED <<br_incoming_task, brExit, tool_name,
                             tool_use_id, tool_use_content, output_q, tasks,
                             tool_tasks>>
         [] m.kind \in {"badjson", "badfields"} ->
              /\ br_incoming_task' = "done"
              /\ brExit' = "exception"
              /\ UNCHANGED <<tool_name, tool_use_id, tool_use_content,
                             output_q, tasks, tool_tasks>>
         [] m.kind = "event" ->
              /\ Handle(m, inCount + 1)
              /\ UNCHANGED <<br_incoming_task, brExit>>
    /\ toolUses' = IF m.kind = "event" /\ "toolUse" \in m.tags
                     THEN Append(toolUses, [tool |-> m.tool, id |-> inCount + 1])
                     ELSE toolUses
    /\ UNCHANGED <<limit, closedReads, handoffs, faults, sent, br_stream, mainVars, userVars, audio_in_q, frameCount, audio,
                   is_playing_output, output_task, timers, deviceVars>>

\* _process_br_incoming once the remote end has closed its side: receive()
\* answers None, "if result is None: continue", and the loop asks again.
ReceiveClosed ==
    /\ Receiving
    /\ closedReads < MaxClosedReads
    /\ closedReads' = closedReads + 1
    /\ UNCHANGED <<limit, toolUses, handoffs, faults, sent, br_stream, mainVars, sessionVars, userVars,
                   audio_in_q, frameCount, toolVars, audio, playVars, deviceVars>>

(***************************************************************************)
(* Tool tasks: _execute_tool, _send_tool_result, _on_tool_completion.      *)
(***************************************************************************)
\* ToolResult(tool_result=ToolResultPayload(...)): the toolResult wire event.
ToolResultEv(name, content) ==
    [tag |-> "toolResult", name |-> name, id |-> NoId, content |-> content]

\* _send_tool_result: the three events, in order.
ToolResultEvents(id, content, name) ==
    <<Ev("contentStart", name, id), ToolResultEv(name, content), Ev("contentEnd", name, NoId)>>

SetTask(n, t) == tasks' = [tasks EXCEPT ![n] = t]

\* Variant of the done callback that logs and leaves the entry in the map.
OnToolCompletionKeepsEntry(name) == tool_tasks' = tool_tasks

\* _on_tool_completion, the task's done callback.
OnToolCompletion(name) == tool_tasks' = tool_tasks \ {name}

\* Variant of invoke_agent without the registry test: every name is run.
ExecuteToolNoLookup(n) ==
    /\ n \in 1..Len(tasks)
    /\ tasks[n].pc = "exec"
    /\ user_incoming_task # "created"
    /\ \/ SetTask(n, [tasks[n] EXCEPT !.pc = "s1", !.attempts = 1])
       \/ SetTask(n, [tasks[n] EXCEPT !.pc = "e1", !.attempts = 1])
    /\ UNCHANGED <<limit, toolUses, closedReads, handoffs, faults, sent, br_stream, mainVars, sessionVars, userVars, audio_in_q,
                   frameCount, tool_tasks, audio, playVars, deviceVars>>

\* nova_tools.invoke_agent: an unregistered name raises KeyError; a registered
\* tool returns, or raises.  Either way _send_tool_result is entered next.
\* The loop runs ready tasks in creation order: the forwarding task, created by
\* initialize(), has had its first step before any tool task has its first.
ExecuteTool(n) ==
    /\ n \in 1..Len(tasks)
    /\ tasks[n].pc = "exec"
    /\ user_incoming_task # "created"
    /\ \/ /\ tasks[n].tool \in RegisteredTools
          /\ SetTask(n, [tasks[n] EXCEPT !.pc = "s1", !.attempts = 1])
       \/ SetTask(n, [tasks[n] EXCEPT !.pc = "e1", !.attempts = 1])
    /\ UNCHANGED <<limit, toolUses, closedReads, handoffs, faults, sent, br_stream, mainVars, sessionVars, userVars, audio_in_q,
                   frameCount, tool_tasks, audio, playVars, deviceVars>>

SendIndex(pc) == IF pc \in {"s1", "e1"} THEN 1 ELSE IF pc \in {"s2", "e2"} THEN 2 ELSE 3
NextPc(pc) ==
    CASE pc = "s1" -> "s2" [] pc = "s2" -> "s3" [] pc = "s3" -> "done"
      [] pc = "e1" -> "e2" [] pc = "e2" -> "e3" [] pc = "e3" -> "done"

\* The result of the tool, or the text of the error.
ResultContent(pc) == IF pc \in {"s1", "s2", "s3"} THEN "result" ELSE "error"

\* Variant in which the error send is not guarded: its exception ends the task.
AfterErrorSendFailsUncaught(t) == [t EXCEPT !.pc = "failed"]

\* The task after a send of the error result raised: the exception is caught
\* and logged, and the coroutine returns.
AfterErrorSendFails(t) == [t EXCEPT !.pc = "done", !.swallowed = TRUE]

\* One send of _send_tool_result.  A send that raises on the success path enters
\* the except branch, which calls _send_tool_result again with the same content
\* name; a send that raises there is logged and swallowed.
SendToolResult(n) ==
    /\ n \in 1..Len(tasks)
    /\ tasks[n].pc \in {"s1", "s2", "s3", "e1", "e2", "e3"}
    /\ LET t == tasks[n]
           ev == ToolResultEvents(t.id, ResultContent(t.pc), t.name)[SendIndex(t.pc)]
       IN \/ /\ SendOk(ev)
             /\ SetTask(n, [t EXCEPT !.pc = NextPc(t.pc)])
             /\ IF NextPc(t.pc) = "done"
                  THEN OnToolCompletion(t.name)
                  ELSE UNCHANGED tool_tasks
          \/ /\ SendFails
             /\ IF t.pc \in {"s1", "s2", "s3"}
                  THEN /\ SetTask(n, [t EXCEPT !.pc = "e1", !.attempts = 2])
                       /\ UNCHANGED tool_tasks
                  ELSE /\ SetTask(n, AfterErrorSendFails(t))
                       /\ OnToolCompletion(t.name)
    /\ UNCHANGED <<limit, toolUses, closedReads, handoffs, br_stream, mainVars, sessionVars, userVars, audio_in_q, frameCount,
                   audio, playVars, deviceVars>>

(***************************************************************************)
(* _process_user_incoming: the audio-input forwarding task.                *)
(***************************************************************************)
\* The contentStart of the audio content is sent outside the try: a send that
\* raises ends the task.
UserContentStart ==
    /\ user_incoming_task = "created"
    /\ \/ SendOk(AudioContentStartEv) /\ user_incoming_task' = "get"
       \/ SendFails /\ user_incoming_task' = "done"
    /\ UNCHANGED <<limit, toolUses, closedReads, handoffs, br_stream, mainVars, sessionVars, userData, audio_in_q, frameCount,
                   toolVars, audio, playVars, deviceVars>>

\* data = await self._audio_in_q.get()
UserGet ==
    /\ user_incoming_task = "get"
    /\ audio_in_q # <<>>
    /\ userData' = Head(audio_in_q)
    /\ audio_in_q' = Tail(audio_in_q)
    /\ user_incoming_task' = "send"
    /\ UNCHANGED <<limit, toolUses, closedReads, handoffs, faults, sent, br_stream, mainVars, sessionVars, frameCount, toolVars, audio,
                   playVars, deviceVars>>

\* The audioInput send; a send that raises is caught outside the loop.
UserSend ==
    /\ user_incoming_task = "send"
    /\ \/ SendOk(AudioInputEv(userData)) /\ user_incoming_task' = "get"
       \/ SendFails /\ user_incoming_task' = "done"
    /\ UNCHANGED <<limit, toolUses, closedReads, handoffs, br_stream, mainVars, sessionVars, userData, audio_in_q, frameCount,
                   toolVars, audio, playVars, deviceVars>>

(***************************************************************************)
(* AudioInterface: capture callback, playback loop, deferred clear.        *)
(***************************************************************************)
\* _input_callback, run by the capture device on its own thread: the frame is
\* handed to the loop (run_coroutine_threadsafe), to be looked at there.
InputCallback ==
    /\ input_stream = "active"
    /\ frameCount < limit.frames
    /\ frameCount' = frameCount + 1
    /\ handoffs' = Append(handoffs, frameCount + 1)
    /\ UNCHANGED <<limit, toolUses, closedReads, faults, sent, br_stream, mainVars, sessionVars, userVars, audio_in_q,
                   toolVars, audio, playVars, deviceVars>>

\* _handle_input, run by the loop: the flag is read now, and the frame is put
\* on the capture queue (_handle_audio_in) unless it is set.
HandleInput ==
    /\ handoffs # <<>>
    /\ handoffs' = Tail(handoffs)
    /\ audio_in_q' = IF is_playing_output THEN audio_in_q
                     ELSE Append(audio_in_q, Head(handoffs))
    /\ UNCHANGED <<limit, toolUses, closedReads, faults, sent, br_stream, mainVars, sessionVars, userVars, frameCount,
                   toolVars, audio, playVars, deviceVars>>

\* Variant of the dequeue step that lets a sleeping timer go on.
PlayDequeueKeepsTimer ==
    /\ output_task = "get"
    /\ output_q > 0
    /\ output_q' = output_q - 1
    /\ timers' = timers
    /\ is_playing_output' = TRUE
    /\ output_task' = "write"
    /\ UNCHANGED <<limit, toolUses, closedReads, handoffs, faults, sent, br_stream, mainVars, sessionVars, userVars, audio_in_q,
                   frameCount, toolVars, audio, deviceVars>>

\* Variant of the dequeue step that leaves the suppression flag as it was.
PlayDequeueNoFlag ==
    /\ output_task = "get"
    /\ output_q > 0
    /\ output_q' = output_q - 1
    /\ timers' = IF timers > 0 THEN timers - 1 ELSE 0
    /\ is_playing_output' = is_playing_output
    /\ output_task' = "write"
    /\ UNCHANGED <<limit, toolUses, closedReads, handoffs, faults, sent, br_stream, mainVars, sessionVars, userVars, audio_in_q,
                   frameCount, toolVars, audio, deviceVars>>

\* _play_output_audio, from the queue's get to the first device write: a timer
\* still sleeping is cancelled and the flag is set.
PlayDequeue ==
    /\ output_task = "get"
    /\ output_q > 0
    /\ output_q' = output_q - 1
    /\ timers' = IF timers > 0 THEN timers - 1 ELSE 0
    /\ is_playing_output' = TRUE
    /\ output_task' = "write"
    /\ UNCHANGED <<limit, toolUses, closedReads, handoffs, faults, sent, br_stream, mainVars, sessionVars, userVars, audio_in_q,
                   frameCount, toolVars, audio, deviceVars>>

\* The writes are done: the deferred clear is scheduled.  A device write that
\* raises is not caught by the loop (only CancelledError is) and ends the task.
PlayWrite ==
    /\ output_task = "write"
    /\ \/ timers' = timers + 1 /\ output_task' = "get"
       \/ timers' = timers /\ output_task' = "failed"
    /\ UNCHANGED <<limit, toolUses, closedReads, handoffs, faults, sent, br_stream, mainVars, sessionVars, userVars, audio_in_q,
                   frameCount, toolVars, audio, output_q, is_playing_output, deviceVars>>

\* _clear_flag_after_playback after its sleep: the flag is cleared if the
\* playback queue is empty.
ClearFlagAfterPlayback ==
    /\ timers > 0
    /\ timers' = timers - 1
    /\ is_playing_output' = IF output_q = 0 THEN FALSE ELSE is_playing_output
    /\ UNCHANGED <<limit, toolUses, closedReads, handoffs, faults, sent, br_stream, mainVars, sessionVars, userVars, audio_in_q,
                   frameCount, toolVars, audio, output_q, output_task, deviceVars>>

(***************************************************************************)
(* close()                                                                 *)
(***************************************************************************)
\* Variant of the first step of close() that cancels the tool tasks as well.
CloseCancelTasksAndTools ==
    /\ mainPc = "ready"
    /\ mainPc' = "c_stop"
    /\ br_incoming_task' = IF br_incoming_task = "none" THEN "none" ELSE "done"
    /\ brExit' = IF br_incoming_task = "recv" THEN "cancelled" ELSE brExit
    /\ user_incoming_task' = IF user_incoming_task = "none" THEN "none" ELSE "done"
    /\ tasks' = [n \in 1..Len(tasks) |-> [tasks[n] EXCEPT !.pc = "done"]]
    /\ tool_tasks' = {}
    /\ UNCHANGED <<limit, toolUses, closedReads, handoffs, faults, sent, br_stream, closeResult, stopResult, inCount, lastIn,
                   tool_name, tool_use_id, tool_use_content, userData, audio_in_q,
                   frameCount, audio, playVars, deviceVars>>

\* Variant of the first step of close() that leaves the forwarding task running.
CloseCancelTasksKeepUser ==
    /\ mainPc = "ready"
    /\ mainPc' = "c_stop"
    /\ br_incoming_task' = IF br_incoming_task = "none" THEN "none" ELSE "done"
    /\ brExit' = IF br_incoming_task = "recv" THEN "cancelled" ELSE brExit
    /\ user_incoming_task' = user_incoming_task
    /\ UNCHANGED <<limit, toolUses, closedReads, handoffs, faults, sent, br_stream, closeResult, stopResult, inCount, lastIn,
                   tool_name, tool_use_id, tool_use_content, userData, audio_in_q,
                   frameCount, toolVars, audio, playVars, deviceVars>>

\* Both tasks are cancelled and gathered (return_exceptions=True).  The caller
\* (main.py, "async with") closes a session whose initialize() returned; one
\* whose initialize() raised is dropped.
CloseCancelTasks ==
    /\ mainPc = "ready"
    /\ mainPc' = "c_stop"
    /\ br_incoming_task' = IF br_incoming_task = "none" THEN "none" ELSE "done"
    /\ brExit' = IF br_incoming_task = "recv" THEN "cancelled" ELSE brExit
    /\ user_incoming_task' = IF user_incoming_task = "none" THEN "none" ELSE "done"
    /\ UNCHANGED <<limit, toolUses, closedReads, handoffs, faults, sent, br_stream, closeResult, stopResult, inCount, lastIn,
                   tool_name, tool_use_id, tool_use_content, userData, audio_in_q,
                   frameCount, toolVars, audio, playVars, deviceVars>>

\* Variant of the handler around stop() that lets every error leave close().
AfterStopUnguarded(result) == IF result = "ok" THEN "c_end1" ELSE "close_raised"

\* Where close() goes after stop() ended with the given result: the handler
\* around the call catches Exception, which CancelledError is not.
AfterStop(result) == IF result = "cancelled" THEN "close_raised" ELSE "c_end1"

\* AudioInterface.stop() as close() calls it, inside try/except Exception.
\*  - a sleeping timer is cancelled and awaited: the await raises CancelledError,
\*    which is no Exception and leaves stop() and close();
\*  - else the playback task is cancelled and awaited (a task that died of a
\*    device error re-raises it here), then the input device is released, then
\*    the output device; either release may raise.
CloseStopAudio ==
    /\ mainPc = "c_stop"
    /\ IF audio = "none"
         THEN /\ mainPc' = "c_end1"
              /\ UNCHANGED <<closeResult, stopResult, playVars, deviceVars>>
         ELSE /\ IF timers > 0
                   THEN /\ timers' = timers - 1
                        /\ stopResult' = "cancelled"
                        /\ UNCHANGED <<output_q, is_playing_output, output_task, deviceVars>>
                   ELSE IF output_task = "failed"
                   THEN /\ stopResult' = "play_error"
                        /\ UNCHANGED <<playVars, deviceVars>>
                   ELSE /\ output_task' = "done"
                        /\ \/ /\ stopResult' = "ok"
                              /\ input_stream' = "released"
                              /\ output_stream' = "released"
                           \/ /\ stopResult' = "device_error"
                              /\ UNCHANGED deviceVars
                           \/ /\ stopResult' = "device_error"
                              /\ input_stream' = "released"
                              /\ UNCHANGED output_stream
                        /\ UNCHANGED <<output_q, is_playing_output, timers>>
              /\ mainPc' = AfterStop(stopResult')
              /\ closeResult' = IF stopResult' = "cancelled" THEN "cancelled" ELSE closeResult
    /\ UNCHANGED <<limit, toolUses, closedReads, handoffs, faults, sent, br_stream, sessionVars, userVars, audio_in_q, frameCount,
                   toolVars, audio>>

ClosePcs == <<"c_end1", "c_end2", "c_end3", "c_close">>
ClosePcIndex(pc) == IF pc = "c_end1" THEN 1 ELSE IF pc = "c_end2" THEN 2 ELSE 3

\* The closing sequence, sent if _br_stream is not None.  The sends are not
\* guarded: one that raises leaves close().
CloseSend ==
    /\ mainPc \in {"c_end1", "c_end2", "c_end3"}
    /\ IF br_stream = "none"
         THEN /\ mainPc' = "c_close"
              /\ UNCHANGED <<faults, sent, closeResult>>
         ELSE \/ /\ SendOk(ClosingEvents[ClosePcIndex(mainPc)])
                 /\ mainPc' = ClosePcs[ClosePcIndex(mainPc) + 1]
                 /\ UNCHANGED closeResult
              \/ /\ SendFails
                 /\ mainPc' = "close_raised"
                 /\ closeResult' = "send_error"
    /\ UNCHANGED <<limit, toolUses, closedReads, handoffs, br_stream, stopResult, sessionVars, userVars, audio_in_q, frameCount,
                   toolVars, audio, playVars, deviceVars>>

\* self._br_stream.close() (its error is swallowed), then the references are reset.
CloseStream ==
    /\ mainPc = "c_close"
    /\ br_stream' = "none"
    /\ audio' = "none"
    /\ mainPc' = "closed"
    /\ closeResult' = "returned"
    /\ UNCHANGED <<limit, toolUses, closedReads, handoffs, faults, sent, stopResult, sessionVars, userVars, audio_in_q, frameCount,
                   toolVars, playVars, deviceVars>>

(***************************************************************************)
(* The session.                                                            *)
(***************************************************************************)
Next ==
    \/ InitializeOpen
    \/ InitializeSend
    \/ \E m \in InboundMessages : ProcessBrIncoming(m)
    \/ ReceiveClosed
    \/ \E n \in 1..limit.tools : ExecuteTool(n)
    \/ \E n \in 1..limit.tools : SendToolResult(n)
    \/ UserContentStart
    \/ UserGet
    \/ UserSend
    \/ InputCallback
    \/ HandleInput
    \/ PlayDequeue
    \/ PlayWrite
    \/ ClearFlagAfterPlayback
    \/ CloseCancelTasks
    \/ CloseStopAudio
    \/ CloseSend
    \/ CloseStream

\* The whole session: every inbound message, one tool, one frame, one chunk,
\* a transport that refuses at most MaxFaults sends.
Init ==
    /\ Fresh
    /\ limit = Limit(MaxInbound, MaxTools, MaxFrames, MaxChunks)
    /\ faults = MaxFaults

Spec == Init /\ [][Next]_vars

\* The whole session over a transport that accepts every send.
InitReliable ==
    /\ Fresh
    /\ limit = Limit(MaxInbound, MaxTools, MaxFrames, MaxChunks)
    /\ faults = 0

SpecReliable == InitReliable /\ [][Next]_vars

(***************************************************************************)
(* The audio scenario: the service sends audio only and no tool is         *)
(* dispatched; capture, playback, the deferred clear and close().          *)
(***************************************************************************)
AudioMessages ==
    {In("event", {"audioOutput"}, "NONE", NoTool), In("none", {}, "NONE", NoTool)}

InitAudio ==
    /\ Fresh
    /\ limit = Limit(AudioInbound, 0, AudioFrames, AudioChunks)
    /\ faults = MaxFaults

NextAudio ==
    \/ InitializeOpen
    \/ InitializeSend
    \/ \E m \in AudioMessages : ProcessBrIncoming(m)
    \/ UserContentStart
    \/ UserGet
    \/ UserSend
    \/ InputCallback
    \/ HandleInput
    \/ PlayDequeue
    \/ PlayWrite
    \/ ClearFlagAfterPlayback
    \/ CloseCancelTasks
    \/ CloseStopAudio
    \/ CloseSend
    \/ CloseStream

SpecAudio == InitAudio /\ [][NextAudio]_vars

(***************************************************************************)
(* The dispatch scenario: an initialized session over a transport that     *)
(* accepts every send, the service sends tool-use and content-end events,  *)
(* the tool tasks run concurrently; no audio, no close().                  *)
(***************************************************************************)
DispatchMessages ==
    {In("event", {"toolUse"}, "NONE", t) : t \in ToolNames}
    \cup {In("event", {"contentEnd"}, ty, NoTool) : ty \in ContentTypes}

InitDispatch ==
    /\ Fresh
    /\ limit = Limit(DispatchInbound, DispatchTools, 0, 0)
    /\ faults = 0

NextDispatch ==
    \/ InitializeOpen
    \/ InitializeSend
    \/ \E m \in DispatchMessages : ProcessBrIncoming(m)
    \/ \E n \in 1..limit.tools : ExecuteTool(n)
    \/ \E n \in 1..limit.tools : SendToolResult(n)
    \/ UserContentStart

SpecDispatch == InitDispatch /\ [][NextDispatch]_vars

\* The dispatch scenario over a transport that refuses up to MaxFaults sends.
InitDispatchFaults ==
    /\ Fresh
    /\ limit = Limit(FaultInbound, FaultTools, 0, 0)
    /\ faults = MaxFaults

SpecDispatchFaults == InitDispatchFaults /\ [][NextDispatch]_vars

(***************************************************************************)
(* The dispatch scenario with close(): tool tasks are in flight when the   *)
(* caller closes the session; every send on the open channel is accepted.  *)
(***************************************************************************)
InitDispatchClose ==
    /\ Fresh
    /\ limit = Limit(CloseInbound, CloseTools, 0, 0)
    /\ faults = 0

NextDispatchClose ==
    \/ NextDispatch
    \/ CloseCancelTasks
    \/ CloseStopAudio
    \/ CloseSend
    \/ CloseStream

SpecDispatchClose == InitDispatchClose /\ [][NextDispatchClose]_vars

(***************************************************************************)
(* Reading the outbound history.                                           *)
(***************************************************************************)
Sent(ev) == \E i \in 1..Len(sent) : sent[i] = ev
TagsOf(name) ==
    LET sub == SelectSeq(sent, LAMBDA e : e.name = name)
    IN [i \in 1..Len(sub) |-> sub[i].tag]
Count(tag, name) ==
    Cardinality({i \in 1..Len(sent) : sent[i].tag = tag /\ sent[i].name = name})
Opened == {sent[i].name : i \in {j \in 1..Len(sent) : sent[j].tag = "contentStart"}}
IsPrefix(s, t) == Len(s) <= Len(t) /\ \A i \in 1..Len(s) : s[i] = t[i]
ResultTriple == <<"contentStart", "toolResult", "contentEnd">>

\* initialize() returned normally (it created the tasks).
Initialized == user_incoming_task # "none"
\* close() has ended, by returning or by raising.
CloseEnded == mainPc \in {"closed", "close_raised"}
AllToolsDone == \A n \in 1..Len(tasks) : tasks[n].pc = "done"

(***************************************************************************)
(* C1.  After initialize() the first six outbound events are sessionStart, *)
(* promptStart, contentStart(SYSTEM), textInput, contentEnd(SYSTEM),       *)
(* contentStart(USER audio), in this order: whatever has been sent so far  *)
(* is a prefix of that sequence or extends it.                             *)
(***************************************************************************)
FirstSix == BootstrapEvents \o <<AudioContentStartEv>>

C1_FirstSixOutbound ==
    Initialized => \A i \in 1..Len(sent) : i <= Len(FirstSix) => sent[i] = FirstSix[i]

(***************************************************************************)
(* C2.  Every content name for which a contentStart was sent has exactly   *)
(* one contentEnd, sent before sessionEnd: once sessionEnd is on the       *)
(* channel every opened name has its one contentEnd ahead of it, and once  *)
(* close() and every tool task have ended every opened name has exactly    *)
(* one contentEnd.                                                         *)
(***************************************************************************)
ClosedOnceBefore(name, k) ==
    /\ Count("contentEnd", name) = 1
    /\ \E i \in 1..(k - 1) : sent[i] = Ev("contentEnd", name, NoId)

C2_EveryOpenedContentClosedOnce ==
    /\ \A k \in 1..Len(sent) :
          sent[k] = SessionEndEv => \A name \in Opened : ClosedOnceBefore(name, k)
    /\ (CloseEnded /\ AllToolsDone) =>
          \A name \in Opened : Count("contentEnd", name) = 1

(***************************************************************************)
(* C3.  Every tool invocation dispatched for a tool-use event (a content-  *)
(* end of type TOOL after a tool-use) produces exactly one result sequence *)
(* contentStart, toolResult, contentEnd under its content name:            *)
(* what has been sent under the name is always a prefix of that triple     *)
(* (never two, never a sequence started again) and is the whole triple     *)
(* once the task has finished (never zero, never partial), whether the     *)
(* tool succeeded or failed.  A task that gave up because the send of its  *)
(* error result raised is not held to the second part.                     *)
(***************************************************************************)
C3_ExactlyOneResultSequence ==
    \A n \in 1..Len(tasks) :
        tasks[n].id # NoId =>
            /\ IsPrefix(TagsOf(tasks[n].name), ResultTriple)
            /\ (tasks[n].pc = "done" /\ ~tasks[n].swallowed) =>
                   TagsOf(tasks[n].name) = ResultTriple

(***************************************************************************)
(* C4 (as claimed).  Suppression invariant: in every state in which the    *)
(* playback queue is non-empty, or a chunk has been dequeued and its       *)
(* estimated duration has not elapsed (it is being written, or its         *)
(* deferred clear is still sleeping), a frame handed over by the capture   *)
(* callback is dropped: it is not placed on the capture queue.             *)
(***************************************************************************)
HandoffStep == Len(handoffs') < Len(handoffs)
ChunkPlaying == output_task = "write" \/ timers > 0

C4_SuppressedWhileQueuedOrPlaying ==
    [][(HandoffStep /\ (output_q > 0 \/ ChunkPlaying)) => audio_in_q' = audio_in_q]_vars

(***************************************************************************)
(* C4 (amended).  From the moment the playback loop dequeues a chunk until *)
(* its estimated duration has elapsed, a frame whose hand-over runs on the *)
(* loop is dropped; and a deferred clear that fires while the playback     *)
(* queue is non-empty leaves the suppression on.  A chunk that is queued   *)
(* but not yet dequeued does not by itself suppress capture.               *)
(***************************************************************************)
C4_SuppressedWhilePlaying ==
    [][/\ (HandoffStep /\ ChunkPlaying) => audio_in_q' = audio_in_q
       /\ (timers' < timers /\ output_q > 0 /\ is_playing_output) => is_playing_output'
      ]_vars

\* A frame was handed over and dropped while a chunk's deferred clear was
\* still sleeping.
C4_Witness ==
    /\ frameCount > 0
    /\ handoffs = <<>>
    /\ timers > 0
    /\ audio_in_q = <<>>
    /\ user_incoming_task = "get"
    /\ ~\E i \in 1..Len(sent) : sent[i].tag = "audioInput"

C6_CloseContinuesAfterDeviceError ==
    stopResult = "device_error" =>
        /\ mainPc \in {"c_end1", "c_end2", "c_end3", "c_close", "closed", "close_raised"}
        /\ mainPc = "close_raised" => closeResult = "send_error"
        /\ mainPc = "closed" => Sent(SessionEndEv)

\* A device release raised in stop() and close() went on to send sessionEnd.
C6_Witness ==
    /\ stopResult = "device_error"
    /\ output_stream = "open"
    /\ mainPc = "closed"
    /\ Sent(SessionEndEv)

(***************************************************************************)
(* C7.  Every cleanup step of close() is best-effort: a closing send that  *)
(* raises does not end close(); the next step is taken.                    *)
(***************************************************************************)
C7_CloseStepsBestEffort ==
    [][(mainPc \in {"c_end1", "c_end2", "c_end3"} /\ mainPc' # mainPc) =>
          mainPc' = ClosePcs[ClosePcIndex(mainPc) + 1]]_vars

(***************************************************************************)
(* C8.  close() called while a deferred clear is still sleeping returns    *)
(* normally: the cancellation is swallowed inside, never reaches the       *)
(* caller, and the closing sequence is still run.                          *)
(***************************************************************************)
C8_CancellationSwallowed ==
    [][(mainPc = "c_stop" /\ timers > 0 /\ mainPc' # mainPc) =>
          (mainPc' = "c_end1" /\ closeResult' # "cancelled")]_vars

(***************************************************************************)
(* C9.  On a close() where no step fails the closing events go out in the  *)
(* order contentEnd(user audio), promptEnd, sessionEnd, and then the       *)
(* channel is closed; the first of them is sent only after both loops      *)
(* have ended and the duplexer has been stopped, so no audioInput follows  *)
(* the audio contentEnd.                                                   *)
(***************************************************************************)
ClosingSent == SelectSeq(sent, LAMBDA e : \E i \in 1..Len(ClosingEvents) : e = ClosingEvents[i])

C9_ClosingOrder ==
    /\ IsPrefix(ClosingSent, ClosingEvents)
    /\ closeResult = "returned" => (ClosingSent = ClosingEvents /\ br_stream = "none")
    /\ Sent(SessionEndEv) /\ mainPc # "closed" => br_stream = "open"
    /\ Sent(AudioContentEndEv) =>
          /\ br_incoming_task = "done"
          /\ user_incoming_task = "done"
          /\ stopResult # "none"
          /\ stopResult = "ok" =>
                 (output_task = "done" /\ input_stream = "released"
                    /\ output_stream = "released")
    /\ \A i, j \in 1..Len(sent) :
          (i < j /\ sent[i] = AudioContentEndEv) => sent[j].tag # "audioInput"

\* close() returned with no step failed, after a frame had been forwarded.
C9_Witness ==
    /\ closeResult = "returned"
    /\ stopResult = "ok"
    /\ ClosingSent = ClosingEvents
    /\ \E i \in 1..Len(sent) : sent[i].tag = "audioInput"

(***************************************************************************)
(* C10.  A malformed inbound message (bytes that are no JSON, fields that  *)
(* fail decoding) or one of an unknown tag is skipped: the dispatch loop   *)
(* is still receiving after it and has not ended with an exception.        *)
(***************************************************************************)
C10_MalformedInboundSkipped ==
    [][inCount' = inCount + 1 => (br_incoming_task' = "recv" /\ brExit' = "none")]_vars

(***************************************************************************)
(* C11.  For a decoded inbound event that carries exactly one of the eight *)
(* tags, visit() invokes the one handler of that tag and nothing else; the *)
(* unknown-event branch is taken if and only if no tag is present.         *)
(***************************************************************************)
HandlerOf(tag) ==
    CASE tag = "completionStart" -> "on_completion_start"
      [] tag = "usageEvent" -> "on_usage"
      [] tag = "contentStart" -> "on_content_start"
      [] tag = "textOutput" -> "on_text_output"
      [] tag = "toolUse" -> "on_tool_use"
      [] tag = "audioOutput" -> "on_audio_output"
      [] tag = "contentEnd" -> "on_content_end"
      [] tag = "completionEnd" -> "on_completion_end"

C11_ExactlyOneHandler ==
    lastIn.kind = "event" =>
        /\ \A t \in Tags : lastIn.tags = {t} => Visit(lastIn.tags) = <<HandlerOf(t)>>
        /\ Called(Visit(lastIn.tags), "unknown") <=> lastIn.tags = {}

(***************************************************************************)
(* C12.  Tool execution is deferred to content-end: receiving a tool-use   *)
(* event starts no task, it only records name, invocation id and payload;  *)
(* a task is started only by receiving a content-end of type TOOL, exactly *)
(* one for such an event, built from the recorded invocation and not yet   *)
(* run; a content-end of type TEXT or AUDIO starts none.                   *)
(***************************************************************************)
Received == inCount' = inCount + 1
ReceivedContentEnd(types) ==
    /\ Received
    /\ lastIn'.kind = "event"
    /\ lastIn'.tags = {"contentEnd"}
    /\ lastIn'.type \in types

C12_ExecutionDeferredToContentEnd ==
    [][/\ (Received /\ lastIn'.kind = "event" /\ lastIn'.tags = {"toolUse"}) =>
              /\ tasks' = tasks
              /\ tool_name' = lastIn'.tool
              /\ tool_use_id' = inCount'
              /\ tool_use_content' = inCount'
       /\ Len(tasks') # Len(tasks) => ReceivedContentEnd({"TOOL"})
       /\ ReceivedContentEnd({"TOOL"}) =>
              /\ Len(tasks') = Len(tasks) + 1
              /\ tasks'[Len(tasks')] = NewToolTask(Len(tasks'))
              /\ \A n \in 1..Len(tasks) : tasks'[n] = tasks[n]
       /\ ReceivedContentEnd({"TEXT", "AUDIO"}) => tasks' = tasks
      ]_vars

\* A tool-use was recorded, a content-end of type TOOL started the one task,
\* and a content-end of another type has since been received and started none.
C12_Witness ==
    /\ inCount = 3
    /\ Len(tasks) = 1
    /\ tasks[1].tool = "simple_request"
    /\ tasks[1].id # NoId
    /\ lastIn.tags = {"contentEnd"}
    /\ lastIn.type \in {"TEXT", "AUDIO"}

(***************************************************************************)
(* C13.  A dispatched tool name that is not in the registry is handled as  *)
(* an execution failure: the task never takes the success path, what it    *)
(* sends under its content name is contentStart, toolResult, contentEnd    *)
(* with the error text as the result's content, it finishes without an     *)
(* error and is untracked, and the inbound dispatch loop is not ended.     *)
(***************************************************************************)
ResultContentsOf(name) ==
    {sent[i].content : i \in {j \in 1..Len(sent) : sent[j].tag = "toolResult" /\ sent[j].name = name}}

ToolTaskPcs == {"exec", "s1", "s2", "s3", "e1", "e2", "e3", "done"}

C14_ErrorSendFailureSwallowed ==
    \A n \in 1..Len(tasks) :
        /\ tasks[n].pc \in ToolTaskPcs
        /\ tasks[n].swallowed =>
              /\ tasks[n].pc = "done"
              /\ tasks[n].name \notin tool_tasks
              /\ br_incoming_task = "recv"
              /\ brExit = "none"
              /\ \A k \in 1..Len(tasks) :
                    (k # n /\ tasks[k].pc # "done") =>
                        /\ tasks[k].name \in tool_tasks
                        /\ ENABLED (ExecuteTool(k) \/ SendToolResult(k))

\* The error send of one task failed and was swallowed while another task was
\* still in flight.
C14_Witness ==
    \E n, k \in 1..Len(tasks) :
        /\ tasks[n].swallowed
        /\ tasks[n].pc = "done"
        /\ tasks[k].pc \in {"s1", "s2", "s3", "e1", "e2", "e3"}

(***************************************************************************)
(* C15.  If a send of the bootstrap sequence fails, the send of the USER   *)
(* audio contentStart included, initialize() fails: the error reaches its  *)
(* caller, who is not left with a session that looks initialized.          *)
(***************************************************************************)
BootstrapSendFails ==
    /\ faults' < faults
    /\ mainPc = "init" \/ user_incoming_task = "created"

C15_BootstrapFailureFailsInitialize ==
    [][BootstrapSendFails => mainPc' = "init_failed"]_vars

(***************************************************************************)
(* C16.  close() never cancels a tool task: no step of close() changes a   *)
(* tool task or the set of tracked tool tasks, and while close() runs and  *)
(* after it every unfinished tool task can still take its next step, up to *)
(* its own completion or failure.                                          *)
(***************************************************************************)
InClose == mainPc \in {"ready", "c_stop", "c_end1", "c_end2", "c_end3", "c_close"}
CloseStep == InClose /\ mainPc' # mainPc
CloseBegun == mainPc \in {"c_stop", "c_end1", "c_end2", "c_end3", "c_close", "closed", "close_raised"}

C16_CloseLeavesToolTasksRunning ==
    [][/\ CloseStep => UNCHANGED <<tasks, tool_tasks>>
       /\ CloseBegun =>
              \A n \in 1..Len(tasks) :
                  tasks[n].pc # "done" => ENABLED (ExecuteTool(n) \/ SendToolResult(n))
      ]_vars

\* A tool task that was in flight when close() started its closing sequence
\* has sent an event of its own afterwards and has finished.
C16_Witness ==
    \E n \in 1..Len(tasks) :
        /\ tasks[n].pc = "done"
        /\ \E i, j \in 1..Len(sent) :
              /\ i < j
              /\ sent[i] = AudioContentEndEv
              /\ sent[j].name = tasks[n].name

(***************************************************************************)
(* C17.  When the remote end has closed the inbound side (receive reports  *)
(* no more data), the inbound dispatch loop terminates, without an error:  *)
(* a turn of the loop that is told so ends the loop.  (The closure is      *)
(* permanent and the loop keeps no state between turns, so a turn that     *)
(* does not end it is followed by the same turn for ever.)                 *)
(***************************************************************************)
C17_InboundClosureEndsLoop ==
    [][closedReads' > closedReads =>
          (br_incoming_task' = "done" /\ brExit' # "exception")]_vars

(***************************************************************************)
(* C18.  The inbound dispatch loop never waits for a tool: while a tool    *)
(* task it dispatched is unfinished, however long the tool takes (also if  *)
(* it never returns), the loop can receive and route any next inbound      *)
(* event.                                                                  *)
(***************************************************************************)
StartsTask(m) == m.kind = "event" /\ m.tags = {"contentEnd"} /\ m.type = "TOOL"

C18_LoopNeverWaitsForTool ==
    (/\ br_incoming_task = "recv"
     /\ inCount < limit.inbound
     /\ \E n \in 1..Len(tasks) : tasks[n].pc # "done") =>
        \A m \in DispatchMessages :
            (StartsTask(m) => Len(tasks) < limit.tools) => ENABLED ProcessBrIncoming(m)

\* A second tool task was dispatched, and a further event was routed, while
\* the first tool was still executing.
C18_Witness ==
    /\ Len(tasks) = 2
    /\ tasks[1].pc = "exec"
    /\ tasks[2].pc = "exec"
    /\ inCount = 3

(***************************************************************************)
(* C19.  Single writer: at no time are two outbound sends in progress on   *)
(* the channel; the tool tasks, the forwarding loop and close() never      *)
(* overlap inside send.  (A task is inside send from its call of           *)
(* _send_event, which it reaches without suspending once the await before  *)
(* it has returned, until the transport's send returns or raises.)         *)
(***************************************************************************)
SendersInSend ==
    {<<"tool", n>> : n \in {k \in 1..Len(tasks) : tasks[k].pc \in {"s1", "s2", "s3", "e1", "e2", "e3"}}}
    \cup (IF user_incoming_task = "send" THEN {<<"forward", 0>>} ELSE {})
    \cup (IF mainPc \in {"c_end1", "c_end2", "c_end3"} THEN {<<"close", 0>>} ELSE {})

C19_SingleWriter == Cardinality(SendersInSend) <= 1

(***************************************************************************)
(* C20.  The tracking map holds an entry, keyed by result content name,    *)
(* for every dispatched tool task from its creation until it finishes, and *)
(* for no other; a task that finishes, however it does, is removed and     *)
(* ends without an exception, so once every dispatched task has finished   *)
(* the map is empty.                                                       *)
(***************************************************************************)
UnfinishedNames == {tasks[n].name : n \in {k \in 1..Len(tasks) : tasks[k].pc # "done"}}

C20_TrackingMapHoldsUnfinishedTasks ==
    /\ tool_tasks = UnfinishedNames
    /\ \A n \in 1..Len(tasks) : tasks[n].pc \in ToolTaskPcs

\* Two tasks were dispatched and both have finished, one of them with its
\* error send swallowed: the map is empty again.
C20_Witness ==
    /\ Len(tasks) = 2
    /\ tasks[1].pc = "done"
    /\ tasks[2].pc = "done"
    /\ tasks[1].swallowed # tasks[2].swallowed
    /\ tool_tasks = {}

(***************************************************************************)
(* C21: AudioInterface.stop() cancels the pending deferred clear, then     *)
(* the playback loop, then releases the output device and then the input   *)
(* device: a stop() that has ended has terminated the playback loop and    *)
(* left no timer, a released device implies a terminated playback loop,    *)
(* and the input device is never released while the output device is not.  *)
(***************************************************************************)
StopEnded == stopResult # "none"
PlaybackTerminated == output_task \in {"done", "failed"} /\ timers = 0

C21_StopOrder ==
    /\ StopEnded => PlaybackTerminated
    /\ (input_stream = "released" \/ output_stream = "released") => PlaybackTerminated
    /\ input_stream = "released" => output_stream = "released"

(***************************************************************************)
(* C22.  Cancel-and-replace suppression timer: at most one deferred clear  *)
(* is pending at any time; while a chunk is being written or its deferred  *)
(* clear is pending the flag is set; and the flag is cleared only by the   *)
(* one pending deferred clear, with no chunk queued and none being         *)
(* written, so by the deferred clear of the last chunk dequeued.           *)
(***************************************************************************)
FlagCleared == is_playing_output /\ ~is_playing_output'

C22_CancelAndReplaceTimer ==
    [][/\ timers' <= 1
       /\ ChunkPlaying' => is_playing_output'
       /\ FlagCleared =>
              /\ timers = 1 /\ timers' = 0
              /\ output_q = 0
              /\ output_task # "write"
      ]_vars

\* The deferred clear of an earlier chunk fired while a later chunk was
\* queued, and left the flag set.
C22_Witness ==
    /\ mainPc = "ready"
    /\ timers = 0
    /\ output_q > 0
    /\ output_task = "get"
    /\ is_playing_output

(***************************************************************************)
(* C23.  While the session is initialized and not closing: a frame whose   *)
(* hand-over finds the flag clear joins, in capture order, the frames on   *)
(* their way out (sent as audioInput, held by the forwarding task, or on   *)
(* the capture queue); a frame whose hand-over finds the flag set does     *)
(* not; no other step adds to, removes from or reorders these frames;      *)
(* every audioInput carries the audio content name; and the forwarding     *)
(* task is alive, so that every frame on its way is sent, once.            *)
(***************************************************************************)
AudioInputs == SelectSeq(sent, LAMBDA e : e.tag = "audioInput")
SentFrames == [i \in 1..Len(AudioInputs) |-> AudioInputs[i].id]
InHand == IF user_incoming_task = "send" THEN <<userData>> ELSE <<>>
Pipeline == SentFrames \o InHand \o audio_in_q

C23_EveryForwardedFrameSentOnce ==
    [][(mainPc = "ready" /\ mainPc' = "ready") =>
          /\ Pipeline' = IF HandoffStep /\ ~is_playing_output
                           THEN Append(Pipeline, Head(handoffs))
                           ELSE Pipeline
          /\ \A i, j \in 1..Len(Pipeline') : i < j => Pipeline'[i] < Pipeline'[j]
          /\ \A i \in 1..Len(AudioInputs') : AudioInputs'[i].name = AudioName
          /\ user_incoming_task' \in {"created", "get", "send"}
      ]_vars

(***************************************************************************)
(* C24.  The service ends tool contents in the order it opened them: the   *)
(* n-th content-end of type TOOL ends the content of the n-th tool-use     *)
(* event.  The task that content-end starts runs the tool name and the     *)
(* payload of that event and references its invocation id, and the         *)
(* contentStart sent under the task's content name carries that id, also   *)
(* when a second tool-use event arrives before the first one's             *)
(* content-end.                                                            *)
(***************************************************************************)
Dispatched == Len(tasks') = Len(tasks) + 1
LastSent == sent'[Len(sent')]

C24_ResultReferencesOwnInvocation ==
    [][/\ (Dispatched /\ Len(tasks') <= Len(toolUses)) =>
              LET n == Len(tasks') IN
              /\ tasks'[n].id = toolUses[n].id
              /\ tasks'[n].tool = toolUses[n].tool
              /\ tasks'[n].content = toolUses[n].id
       /\ (Len(sent') = Len(sent) + 1 /\ LastSent.tag = "contentStart"
             /\ LastSent.name.kind = "tool") =>
              LastSent.id = tasks[LastSent.name.n].id
       /\ \A n \in 1..Len(tasks) : tasks'[n].id = tasks[n].id
      ]_vars

(***************************************************************************)
(* C25.  No content name is opened twice: at most one contentStart has     *)
(* been sent under any content name, also when a tool result sequence      *)
(* failed part-way and the error result was sent after it.                 *)
(***************************************************************************)
C25_ContentNameOpenedOnce ==
    \A name \in Opened : Count("contentStart", name) <= 1

(***************************************************************************)
(* C26.  The content-end handler consumes the pending invocation: when a   *)
(* content-end of type TOOL has been handled the pending slot is empty,    *)
(* and the task a content-end starts never references the invocation id    *)
(* of a tool-use event that an earlier task was started with, so a         *)
(* tool-use event is dispatched at most once.                              *)
(***************************************************************************)
SlotEmpty == tool_name = NoTool /\ tool_use_id = NoId /\ tool_use_content = NoId

C26_ContentEndConsumesSlot ==
    [][/\ ReceivedContentEnd({"TOOL"}) => SlotEmpty'
       /\ (Dispatched /\ tasks'[Len(tasks')].id # NoId) =>
              \A n \in 1..Len(tasks) : tasks[n].id # tasks'[Len(tasks')].id
      ]_vars

(***************************************************************************)
(* C27.  Nothing is sent after sessionEnd, and no event of a tool result   *)
(* (contentStart, toolResult, contentEnd under a tool content name) is     *)
(* sent after promptEnd, also when a tool task is in flight while close()  *)
(* sends the closing sequence.                                             *)
(***************************************************************************)
C27_NothingBehindClosingEvents ==
    \A i, j \in 1..Len(sent) :
        i < j => /\ sent[i].tag # "sessionEnd"
                 /\ sent[i].tag = "promptEnd" => sent[j].name.kind # "tool"

(***************************************************************************)
(* C28.  close() sends the contentEnd of the user audio content only if    *)
(* its contentStart was sent: every contentEnd under the audio content     *)
(* name has a contentStart under that name before it.                      *)
(***************************************************************************)
C28_AudioContentEndOnlyIfOpened ==
    \A j \in 1..Len(sent) :
        sent[j] = AudioContentEndEv =>
            \E i \in 1..(j - 1) : sent[i] = AudioContentStartEv

(***************************************************************************)
(* C29.  Suppression always ends.  While the duplexer is not stopped, a    *)
(* set flag always has something pending that leads to its clearing: a     *)
(* deferred clear that is sleeping, a chunk being written (its deferred    *)
(* clear is scheduled after the writes), or a queued chunk the playback    *)
(* loop is about to dequeue.  A state with the flag set and none of these  *)
(* keeps the flag set for ever, whether or not a chunk is enqueued later.  *)
(***************************************************************************)
NotStopped == mainPc = "ready"
ClearPending ==
    \/ timers > 0
    \/ output_task = "write"
    \/ output_task = "get" /\ output_q > 0

C29_SuppressionAlwaysEnds ==
    (NotStopped /\ is_playing_output) => ClearPending

====
